---------------------------- MODULE Spec2Model ----------------------------
(***************************************************************************)
(* The expense settlement engine of sire-cup: the body of the /settle_up   *)
(* request handler (src/app.py, settle_up, lines 567-618).                  *)
(*                                                                         *)
(* Money.  The program keeps amounts as Python floats.  The model keeps    *)
(* them as exact rationals, written as integers counted in units of        *)
(* 1/Scale of a cent, where Scale is the least common multiple of          *)
(* 1..MaxPlayers, so that amount / len(participants) is exact.  One cent   *)
(* (0.01) is therefore Scale units: see Eps.  round(x, 2) is the nearest   *)
(* whole cent, an exact half going to the even cent (Python's rule for an  *)
(* exact tie; on a float the binary value next to the half decides, so     *)
(* nothing below relies on the direction of a tie).  Float rounding error  *)
(* (about 1e-16 relative) is not modelled.                                 *)
(*                                                                         *)
(* Requests.  Every request runs the handler on locals of its own; the     *)
(* per-request variables are functions over the set reqs of requests.      *)
(* The tables player and expense are read by the two queries of lines      *)
(* 569-570 and are not written by the handler.                             *)
(***************************************************************************)
EXTENDS Integers, Sequences, FiniteSets

\* ------------------------------------------------------------- bounds
\* the largest roster size tried
MaxPlayers == 4
\* the largest number of rows of the expense table tried
MaxExpenses == 2
\* the largest number of expense rows when two requests run concurrently
MaxExpensesConc == 1

RECURSIVE Gcd(_, _)
Gcd(a, b) == IF b = 0 THEN a ELSE Gcd(b, a % b)

RECURSIVE LcmUpTo(_)
LcmUpTo(n) == IF n <= 1 THEN 1 ELSE LET m == LcmUpTo(n - 1) IN (m * n) \div Gcd(m, n)

\* units per cent
Scale == LcmUpTo(MaxPlayers)

\* the expense amounts tried, in cents: a refund of 10.00, 0.02, 20.00, 30.00,
\* 50.00, 90.00
AmountsInCents == {-1000, 2, 2000, 3000, 5000, 9000}

Cents(c) == c * Scale

Amounts == {Cents(c) : c \in AmountsInCents}

\* the literal 0.01 of lines 603, 613 and 615
Eps == Cents(1)

\* ------------------------------------------------------------- state
VARIABLES
    dbPlayers,     \* table player, in the order Player.query.all() returns it
    dbExpenses,    \* table expense with each row's payer and participants
    reqs,          \* the requests being served
    pc,            \* each request's position in settle_up
    players,       \* local players (line 569)
    expenses,      \* local expenses (line 570)
    balances,      \* local balances, a defaultdict(float) (line 572)
    next_expense,  \* position of the for loop of line 576
    debtors,       \* local debtors (line 585)
    creditors,     \* local creditors (line 586)
    transactions,  \* local transactions (line 593)
    i,             \* debtor cursor (line 597), counted from 0 as in the code
    j              \* creditor cursor (line 597), counted from 0 as in the code

vars == <<dbPlayers, dbExpenses, reqs, pc, players, expenses, balances,
          next_expense, debtors, creditors, transactions, i, j>>

\* ------------------------------------------------------------- helpers
Range(s) == {s[n] : n \in 1..Len(s)}

RECURSIVE SumSeq(_)
SumSeq(s) == IF s = <<>> THEN 0 ELSE Head(s) + SumSeq(Tail(s))

RECURSIVE SumFun(_, _)
SumFun(f, S) ==
    IF S = {} THEN 0
    ELSE LET x == CHOOSE y \in S : TRUE IN f[x] + SumFun(f, S \ {x})

Abs(x) == IF x < 0 THEN -x ELSE x

Min(a, b) == IF a < b THEN a ELSE b

\* round(x, 2) for x >= 0: the nearest whole cent, a half to the even cent
Round2(x) ==
    LET q == x \div Scale
        r == x % Scale
    IN  IF 2 * r < Scale THEN Cents(q)
        ELSE IF 2 * r > Scale THEN Cents(q + 1)
        ELSE IF q % 2 = 0 THEN Cents(q) ELSE Cents(q + 1)

\* balances[key] of a defaultdict(float): a missing key reads as 0.0
Get(bal, key) == IF key \in DOMAIN bal THEN bal[key] ELSE 0

\* balances[key] = v
Put(bal, key, v) == [p \in (DOMAIN bal) \cup {key} |-> IF p = key THEN v ELSE bal[p]]

\* ------------------------------------------------------------- the tables
InitWith(requests) ==
    /\ dbPlayers = <<>>
    /\ dbExpenses = <<>>
    /\ reqs = requests
    /\ pc = [r \in requests |-> "start"]
    /\ players = [r \in requests |-> <<>>]
    /\ expenses = [r \in requests |-> <<>>]
    /\ balances = [r \in requests |-> <<>>]
    /\ next_expense = [r \in requests |-> 0]
    /\ debtors = [r \in requests |-> <<>>]
    /\ creditors = [r \in requests |-> <<>>]
    /\ transactions = [r \in requests |-> <<>>]
    /\ i = [r \in requests |-> 0]
    /\ j = [r \in requests |-> 0]

Init == InitWith({1})

\* The engine is handed one consistent snapshot of the tables: the tables are
\* filled before the first request reads them and are left alone afterwards.
TablesOpen == \A r \in reqs : pc[r] = "start"

ExpenseLimit == IF Cardinality(reqs) = 1 THEN MaxExpenses ELSE MaxExpensesConc

\* add_player: a new row of table player; its id is the next integer
add_player ==
    /\ TablesOpen
    /\ Len(dbPlayers) < MaxPlayers
    /\ dbPlayers' = Append(dbPlayers, Len(dbPlayers) + 1)
    /\ UNCHANGED <<dbExpenses, reqs, pc, players, expenses, balances, next_expense,
                   debtors, creditors, transactions, i, j>>

\* add_expense: a new row of table expense and one row of expense_participant
\* for each ticked player (unique per expense and player)
add_expense ==
    /\ TablesOpen
    /\ Len(dbExpenses) < ExpenseLimit
    /\ \E amount \in Amounts, payer \in Range(dbPlayers), participants \in SUBSET Range(dbPlayers) :
          dbExpenses' = Append(dbExpenses, [amount |-> amount, payer |-> payer,
                                            participants |-> participants])
    /\ UNCHANGED <<dbPlayers, reqs, pc, players, expenses, balances, next_expense,
                   debtors, creditors, transactions, i, j>>

\* ------------------------------------------------------------- computeBalances
\* a slip: the loop of lines 573-574 left out, the defaultdict starts empty
EmptyBalances(ps) == [p \in {} |-> 0]

\* lines 572-574: a fresh map with 0.0 for every player of the roster
ZeroBalances(ps) == [p \in Range(ps) |-> 0]

\* a slip: the test of line 580 left out
AlwaysShared(e) == TRUE

\* line 580: `if expense.participants:` (a non-empty list is truthy)
HasParticipants(e) == e.participants # {}

\* line 581 raises ZeroDivisionError when the divisor is 0
DivisionFails(e) == Cardinality(e.participants) = 0

\* a slip: the payer counted as one more sharer
share_counting_payer(e) == e.amount \div (Cardinality(e.participants) + 1)

\* line 581: expense.amount / len(expense.participants)
share_per_person(e) == e.amount \div Cardinality(e.participants)

\* a slip: an expense nobody shares is skipped altogether
CreditIfShared(bal, e) ==
    IF e.participants = {} THEN bal ELSE Put(bal, e.payer, Get(bal, e.payer) + e.amount)

\* a slip: a negative amount treated as invalid and not credited
CreditPositiveOnly(bal, e) ==
    IF e.amount < 0 THEN bal ELSE Put(bal, e.payer, Get(bal, e.payer) + e.amount)

\* line 578: balances[payer.id] += expense.amount
Credit(bal, e) == Put(bal, e.payer, Get(bal, e.payer) + e.amount)

\* a slip: the payer left out of the sharers
DebitOthers(bal, e) ==
    [p \in (DOMAIN bal) \cup e.participants |->
        IF p \in e.participants \ {e.payer} THEN Get(bal, p) - share_per_person(e) ELSE bal[p]]

\* lines 582-583: balances[participant.player.id] -= share_per_person
Debit(bal, e) ==
    [p \in (DOMAIN bal) \cup e.participants |->
        IF p \in e.participants THEN Get(bal, p) - share_per_person(e) ELSE bal[p]]

\* lines 577-583: one pass of the loop body
AfterExpense(bal, e) ==
    IF HasParticipants(e) THEN Debit(Credit(bal, e), e) ELSE Credit(bal, e)

\* ------------------------------------------------------------- computeTransactions
\* a slip: <= for <
IsDebtorOrEven(b) == b <= 0

\* line 588: `if balances[player.id] < 0`
IsDebtor(b) == b < 0

\* line 590: `elif balances[player.id] > 0`
IsCreditor(b) == ~IsDebtor(b) /\ b > 0

\* lines 587-589: the debtors, in roster order, each with abs(balance)
RECURSIVE DebtorsOf(_, _)
DebtorsOf(bal, ps) ==
    IF ps = <<>> THEN <<>>
    ELSE LET p == Head(ps)
             rest == DebtorsOf(bal, Tail(ps))
         IN  IF IsDebtor(Get(bal, p))
             THEN <<[player |-> p, amount |-> Abs(Get(bal, p))]>> \o rest
             ELSE rest

\* lines 587, 590-591: the creditors, in roster order, each with its balance
RECURSIVE CreditorsOf(_, _)
CreditorsOf(bal, ps) ==
    IF ps = <<>> THEN <<>>
    ELSE LET p == Head(ps)
             rest == CreditorsOf(bal, Tail(ps))
         IN  IF IsCreditor(Get(bal, p))
             THEN <<[player |-> p, amount |-> Get(bal, p)]>> \o rest
             ELSE rest

RECURSIVE InsertDescUnstable(_, _)
\* a slip: a sort that is not stable, x going in front of its equals
InsertDescUnstable(x, s) ==
    IF s = <<>> THEN <<x>>
    ELSE IF Head(s).amount > x.amount THEN <<Head(s)>> \o InsertDescUnstable(x, Tail(s))
    ELSE <<x>> \o s

\* list.sort keeps equal keys in their order, also with reverse=True: x goes
\* behind every entry whose amount is at least its own
RECURSIVE InsertDesc(_, _)
InsertDesc(x, s) ==
    IF s = <<>> THEN <<x>>
    ELSE IF Head(s).amount >= x.amount THEN <<Head(s)>> \o InsertDesc(x, Tail(s))
    ELSE <<x>> \o s

RECURSIVE SortInto(_, _)
SortInto(sorted, rest) ==
    IF rest = <<>> THEN sorted
    ELSE SortInto(InsertDesc(Head(rest), sorted), Tail(rest))

\* a slip: the list left in roster order
Unsorted(s) == s

\* lines 594-595: sort(key=lambda x: x['amount'], reverse=True)
SortDesc(s) == SortInto(<<>>, s)

\* a slip: one list kept at module level and never emptied
StaleTransactions(r) ==
    IF reqs \ {r} = {} THEN <<>> ELSE transactions[CHOOSE q \in reqs \ {r} : TRUE]

\* line 593: transactions = []
NewTransactions(r) == <<>>

\* a slip: max for min
amount_to_settle_max(d, c) == IF d.amount > c.amount THEN d.amount ELSE c.amount

\* a slip: a transfer limit of 10.00 put on each transaction
amount_to_settle_capped(d, c) == Min(Min(d.amount, c.amount), Cents(1000))

\* line 602
amount_to_settle(d, c) == Min(d.amount, c.amount)

\* a slip: >= for >
ShouldEmitAtEps(a) == a >= Eps

\* line 603: `if amount_to_settle > 0.01`
ShouldEmit(a) == a > Eps

\* lines 610-611 stand inside the `if` of line 603
Subtracts(a) == ShouldEmit(a)

\* lines 613 and 615: `if ...['amount'] < 0.01`
Settled(remaining) == remaining < Eps

\* a slip: the debtor's whole debt for the settled amount
TransactionOfWholeDebt(d, c, a) ==
    [from |-> d.player, to |-> c.player, amount |-> Round2(d.amount)]

\* lines 604-608
Transaction(d, c, a) == [from |-> d.player, to |-> c.player, amount |-> Round2(a)]

\* ------------------------------------------------------------- the handler's steps
Local(v, r, x) == [v EXCEPT ![r] = x]

\* lines 569-570
Query(r) ==
    /\ pc[r] = "start"
    /\ players' = Local(players, r, dbPlayers)
    /\ expenses' = Local(expenses, r, dbExpenses)
    /\ pc' = Local(pc, r, "balances")
    /\ UNCHANGED <<dbPlayers, dbExpenses, reqs, balances, next_expense, debtors,
                   creditors, transactions, i, j>>

\* lines 572-574
InitBalances(r) ==
    /\ pc[r] = "balances"
    /\ balances' = Local(balances, r, ZeroBalances(players[r]))
    /\ next_expense' = Local(next_expense, r, 0)
    /\ pc' = Local(pc, r, "expenses")
    /\ UNCHANGED <<dbPlayers, dbExpenses, reqs, players, expenses, debtors,
                   creditors, transactions, i, j>>

\* a slip: the share computed in place, `expense.amount /= len(...)`
ApplyExpenseInPlace(r) ==
    /\ pc[r] = "expenses"
    /\ next_expense[r] < Len(expenses[r])
    /\ LET e == expenses[r][next_expense[r] + 1]
       IN  /\ balances' = Local(balances, r, AfterExpense(balances[r], e))
           /\ next_expense' = Local(next_expense, r, next_expense[r] + 1)
           /\ expenses' = [expenses EXCEPT ![r][next_expense[r] + 1].amount =
                              IF HasParticipants(e) THEN share_per_person(e) ELSE @]
    /\ UNCHANGED <<dbPlayers, dbExpenses, reqs, pc, players, debtors,
                   creditors, transactions, i, j>>

\* lines 576-583, one expense
ApplyExpense(r) ==
    /\ pc[r] = "expenses"
    /\ next_expense[r] < Len(expenses[r])
    /\ LET e == expenses[r][next_expense[r] + 1]
       IN  IF HasParticipants(e) /\ DivisionFails(e)
           THEN /\ balances' = Local(balances, r, Credit(balances[r], e))
                /\ pc' = Local(pc, r, "error")
                /\ UNCHANGED next_expense
           ELSE /\ balances' = Local(balances, r, AfterExpense(balances[r], e))
                /\ next_expense' = Local(next_expense, r, next_expense[r] + 1)
                /\ UNCHANGED pc
    /\ UNCHANGED <<dbPlayers, dbExpenses, reqs, players, expenses, debtors,
                   creditors, transactions, i, j>>

\* lines 585-591
Partition(r) ==
    /\ pc[r] = "expenses"
    /\ next_expense[r] = Len(expenses[r])
    /\ debtors' = Local(debtors, r, DebtorsOf(balances[r], players[r]))
    /\ creditors' = Local(creditors, r, CreditorsOf(balances[r], players[r]))
    /\ pc' = Local(pc, r, "sort")
    /\ UNCHANGED <<dbPlayers, dbExpenses, reqs, players, expenses, balances,
                   next_expense, transactions, i, j>>

\* lines 593-597
Sort(r) ==
    /\ pc[r] = "sort"
    /\ transactions' = Local(transactions, r, NewTransactions(r))
    /\ debtors' = Local(debtors, r, SortDesc(debtors[r]))
    /\ creditors' = Local(creditors, r, SortDesc(creditors[r]))
    /\ i' = Local(i, r, 0)
    /\ j' = Local(j, r, 0)
    /\ pc' = Local(pc, r, "sweep")
    /\ UNCHANGED <<dbPlayers, dbExpenses, reqs, players, expenses, balances,
                   next_expense>>

\* line 598
InLoop(r) == i[r] < Len(debtors[r]) /\ j[r] < Len(creditors[r])

\* lines 598-616, one iteration
SweepStep(r) ==
    /\ pc[r] = "sweep"
    /\ InLoop(r)
    /\ LET debtor == debtors[r][i[r] + 1]
           creditor == creditors[r][j[r] + 1]
           a == amount_to_settle(debtor, creditor)
           dleft == IF Subtracts(a) THEN debtor.amount - a ELSE debtor.amount
           cleft == IF Subtracts(a) THEN creditor.amount - a ELSE creditor.amount
       IN  /\ transactions' =
                 Local(transactions, r,
                       IF ShouldEmit(a)
                       THEN Append(transactions[r], Transaction(debtor, creditor, a))
                       ELSE transactions[r])
           /\ debtors' = [debtors EXCEPT ![r][i[r] + 1].amount = dleft]
           /\ creditors' = [creditors EXCEPT ![r][j[r] + 1].amount = cleft]
           /\ i' = Local(i, r, IF Settled(dleft) THEN i[r] + 1 ELSE i[r])
           /\ j' = Local(j, r, IF Settled(cleft) THEN j[r] + 1 ELSE j[r])
    /\ UNCHANGED <<dbPlayers, dbExpenses, reqs, pc, players, expenses, balances,
                   next_expense>>

\* lines 598 (the loop's test fails) and 618
Return(r) ==
    /\ pc[r] = "sweep"
    /\ ~InLoop(r)
    /\ pc' = Local(pc, r, "done")
    /\ UNCHANGED <<dbPlayers, dbExpenses, reqs, players, expenses, balances,
                   next_expense, debtors, creditors, transactions, i, j>>

\* a /settle_up request: the steps of settle_up, in program order
Next ==
    \/ add_player
    \/ add_expense
    \/ \E r \in reqs : Query(r)
    \/ \E r \in reqs : InitBalances(r)
    \/ \E r \in reqs : ApplyExpense(r)
    \/ \E r \in reqs : Partition(r)
    \/ \E r \in reqs : Sort(r)
    \/ \E r \in reqs : SweepStep(r)
    \/ \E r \in reqs : Return(r)

\* one request
Spec == Init /\ [][Next]_vars

\* one request; the interpreter keeps running the handler
FairSpec == Init /\ [][Next]_vars /\ WF_vars(Next)

\* two requests over the same tables, their steps interleaved
ConcInit == InitWith({1, 2})

ConcSpec == ConcInit /\ [][Next]_vars

\* ------------------------------------------------------------- what a request has computed
\* the balance loop of lines 576-583 has run to its end
BalancesComputed(r) ==
    \/ pc[r] = "expenses" /\ next_expense[r] = Len(expenses[r])
    \/ pc[r] \in {"sort", "sweep", "done"}

\* the request has returned (line 618)
Returned(r) == pc[r] = "done"

BalanceSum(r) == SumFun(balances[r], DOMAIN balances[r])

\* the expenses the loop has gone through so far
Processed(r) == SubSeq(expenses[r], 1, next_expense[r])

RECURSIVE UnsharedTotal(_)
\* the total amount of the expenses of es that list no participant
UnsharedTotal(es) ==
    IF es = <<>> THEN 0
    ELSE (IF Head(es).participants = {} THEN Head(es).amount ELSE 0) + UnsharedTotal(Tail(es))

AllShared(es) == \A n \in 1..Len(es) : es[n].participants # {}

\* the sum of the balances that are greater than zero
PositiveMass(r) ==
    LET pos == [p \in DOMAIN balances[r] |-> IF balances[r][p] > 0 THEN balances[r][p] ELSE 0]
    IN  SumFun(pos, DOMAIN pos)

TransactionTotal(r) == SumSeq([n \in 1..Len(transactions[r]) |-> transactions[r][n].amount])

\* what player p has sent and received in the emitted transactions
Sent(r, p) ==
    SumSeq([n \in 1..Len(transactions[r]) |->
               IF transactions[r][n].from = p THEN transactions[r][n].amount ELSE 0])

Received(r, p) ==
    SumSeq([n \in 1..Len(transactions[r]) |->
               IF transactions[r][n].to = p THEN transactions[r][n].amount ELSE 0])

\* p's balance after every transaction is applied as the specification words it:
\* the amount subtracted from the balance of `from`, added to the balance of `to`
AppliedAsStated(r, p) == balances[r][p] - Sent(r, p) + Received(r, p)

\* p's balance after every transaction is paid: the payer's balance rises by what
\* it sends, the receiver's falls by what it gets
AfterPayment(r, p) == balances[r][p] + Sent(r, p) - Received(r, p)

NumPlayers(r) == Len(players[r])

\* ------------------------------------------------------------- C1
\* C1, as stated: for all inputs the sum of all computed balances is zero.
C1_ZeroSumAlways == \A r \in reqs : BalancesComputed(r) => BalanceSum(r) = 0

\* C1, amended: at every point of the balance loop and after it, the sum of all
\* balances equals the total amount of the processed expenses that list no
\* participant; so the computed balances sum to zero when every expense has at
\* least one participant.
C1_SumIsUnsharedTotal ==
    \A r \in reqs :
        pc[r] \in {"expenses", "sort", "sweep", "done"} =>
            /\ BalanceSum(r) = UnsharedTotal(Processed(r))
            /\ BalancesComputed(r) /\ AllShared(expenses[r]) => BalanceSum(r) = 0

\* balances computed from a shared and an unshared expense, someone in debt
C1_Witness ==
    \E r \in reqs :
        /\ BalancesComputed(r)
        /\ Len(expenses[r]) = 2
        /\ expenses[r][1].participants # {}
        /\ expenses[r][2].participants = {}
        /\ \E p \in DOMAIN balances[r] : balances[r][p] < 0
        /\ BalanceSum(r) # 0

\* ------------------------------------------------------------- C2
\* C2: the matching sweep terminates for every input: every request returns.
C2_SweepTerminates == <>(\A r \in reqs : Returned(r))

\* ------------------------------------------------------------- C3
\* C3, as stated: once the request has returned, applying every transaction to
\* the balances (the amount subtracted from the balance of `from` and added to
\* the balance of `to`) leaves every player's balance within 0.01 of zero.
C3_FullSettlementAsStated ==
    \A r \in reqs :
        Returned(r) => \A p \in Range(players[r]) : Abs(AppliedAsStated(r, p)) <= Eps

\* C3, amended: once the request has returned, and provided every expense has at
\* least one participant, paying every transaction (the amount added to the
\* balance of `from`, subtracted from the balance of `to`) leaves every player's
\* balance within 0.01 times the number of players of zero.
C3_FullSettlement ==
    \A r \in reqs :
        Returned(r) /\ AllShared(expenses[r]) =>
            \A p \in Range(players[r]) : Abs(AfterPayment(r, p)) <= Eps * NumPlayers(r)

\* a returned request with two or more transactions and a residue left over
C3_Witness ==
    \E r \in reqs :
        /\ Returned(r)
        /\ AllShared(expenses[r])
        /\ Len(transactions[r]) >= 2
        /\ \E p \in Range(players[r]) : AfterPayment(r, p) # 0

\* ------------------------------------------------------------- C4
\* C4, as stated: the sum of the emitted amounts differs from the total positive
\* balance by at most 0.01 times the number of emitted transactions.
C4_ConservationAsStated ==
    \A r \in reqs :
        Returned(r) =>
            Abs(TransactionTotal(r) - PositiveMass(r)) <= Eps * Len(transactions[r])

\* C4, amended: once the request has returned, and provided every expense has at
\* least one participant, the sum of the emitted amounts differs from the total
\* positive balance by at most 0.01 times the number of players.
C4_Conservation ==
    \A r \in reqs :
        Returned(r) /\ AllShared(expenses[r]) =>
            Abs(TransactionTotal(r) - PositiveMass(r)) <= Eps * NumPlayers(r)

\* a returned request whose transactions do not add up to the positive balances
C4_Witness ==
    \E r \in reqs :
        /\ Returned(r)
        /\ AllShared(expenses[r])
        /\ Len(transactions[r]) >= 2
        /\ TransactionTotal(r) # PositiveMass(r)

\* ------------------------------------------------------------- C5
DebtorPlayers(r) == {debtors[r][n].player : n \in 1..Len(debtors[r])}

CreditorPlayers(r) == {creditors[r][n].player : n \in 1..Len(creditors[r])}

Partitioned(r) == pc[r] \in {"sort", "sweep", "done"}

\* C5: no emitted transaction has the same player as `from` and `to`; no player
\* is in both the debtors and the creditors list, a debtor has a balance below
\* zero, a creditor one above zero, and a player whose balance is zero is in
\* neither list.
C5_NoSelfPayment ==
    \A r \in reqs :
        /\ \A n \in 1..Len(transactions[r]) : transactions[r][n].from # transactions[r][n].to
        /\ Partitioned(r) =>
              /\ DebtorPlayers(r) \cap CreditorPlayers(r) = {}
              /\ \A p \in DebtorPlayers(r) : balances[r][p] < 0
              /\ \A p \in CreditorPlayers(r) : balances[r][p] > 0
              /\ \A p \in Range(players[r]) :
                    balances[r][p] = 0 => p \notin DebtorPlayers(r) \cup CreditorPlayers(r)

\* a transaction was emitted while some player's balance is zero
C5_Witness ==
    \E r \in reqs :
        /\ Partitioned(r)
        /\ Len(transactions[r]) >= 1
        /\ \E p \in Range(players[r]) : balances[r][p] = 0

\* ------------------------------------------------------------- C6
\* the balances are -40, -10, +30 and +20, held by a, b, c and d
Scenario5(r, a, b, c, d) ==
    /\ Len(players[r]) = 4
    /\ {a, b, c, d} = Range(players[r])
    /\ balances[r][a] = Cents(-4000)
    /\ balances[r][b] = Cents(-1000)
    /\ balances[r][c] = Cents(3000)
    /\ balances[r][d] = Cents(2000)

\* C6: the first emitted transaction goes from a debtor with the largest debt to
\* a creditor with the largest credit, for the smaller of the two amounts (rounded
\* to the cent, as every emitted amount is); for the balances -40, -10, +30, +20
\* the request returns exactly (-40) -> (+30) 30.00, (-40) -> (+20) 10.00,
\* (-10) -> (+20) 10.00, and paying these leaves every balance at zero.
C6_GreedyLargestFirst ==
    \A r \in reqs :
        /\ pc[r] \in {"sweep", "done"} /\ Len(transactions[r]) >= 1 =>
              LET t == transactions[r][1]
              IN  /\ \A p \in Range(players[r]) : balances[r][t.from] <= balances[r][p]
                  /\ \A p \in Range(players[r]) : balances[r][t.to] >= balances[r][p]
                  /\ t.amount = Round2(Min(-balances[r][t.from], balances[r][t.to]))
        /\ Returned(r) /\ Len(players[r]) = 4 =>
              \A a, b, c, d \in Range(players[r]) :
                  Scenario5(r, a, b, c, d) =>
                      /\ transactions[r] =
                            << [from |-> a, to |-> c, amount |-> Cents(3000)],
                               [from |-> a, to |-> d, amount |-> Cents(1000)],
                               [from |-> b, to |-> d, amount |-> Cents(1000)] >>
                      /\ \A p \in Range(players[r]) : AfterPayment(r, p) = 0

\* the request has returned on balances -40, -10, +30, +20, the largest debtor
\* and the largest creditor not standing first in the roster
C6_Witness ==
    \E r \in reqs :
        /\ Returned(r)
        /\ \E a, b, c, d \in Range(players[r]) :
              Scenario5(r, a, b, c, d) /\ a > b /\ c > d

\* ------------------------------------------------------------- C7
\* C7: two requests over the same players and expenses, run one after the other
\* or with their steps interleaved, return the same balances and the same ordered
\* list of transactions.
C7_SameInputsSameOutput ==
    \A r, q \in reqs :
        Returned(r) /\ Returned(q) =>
            /\ balances[r] = balances[q]
            /\ transactions[r] = transactions[q]

\* both requests have returned, each with a transaction
C7_Witness ==
    /\ Cardinality(reqs) = 2
    /\ \A r \in reqs : Returned(r) /\ Len(transactions[r]) >= 1

\* ------------------------------------------------------------- C8
\* p neither paid nor shared any expense of es
Uninvolved(p, es) ==
    \A n \in 1..Len(es) : es[n].payer # p /\ p \notin es[n].participants

\* C8: every player of the roster has an entry in the computed balance map, and
\* a player who neither paid nor shared any expense has balance exactly 0.
C8_EveryPlayerHasBalance ==
    \A r \in reqs :
        BalancesComputed(r) =>
            \A p \in Range(players[r]) :
                /\ p \in DOMAIN balances[r]
                /\ Uninvolved(p, expenses[r]) => balances[r][p] = 0

\* balances computed, one player uninvolved, another with a balance
C8_Witness ==
    \E r \in reqs :
        /\ BalancesComputed(r)
        /\ Len(expenses[r]) >= 1
        /\ \E p, q \in Range(players[r]) :
              /\ Uninvolved(p, expenses[r])
              /\ q \in DOMAIN balances[r]
              /\ balances[r][q] # 0

\* ------------------------------------------------------------- C9
\* request r is about to process an expense that lists no participant
AtUnsharedExpense(r) ==
    /\ pc[r] = "expenses"
    /\ next_expense[r] < Len(expenses[r])
    /\ expenses[r][next_expense[r] + 1].participants = {}

\* C9, the step: processing an expense that lists no participant adds its amount
\* to the payer's balance and changes no other balance.
C9_UnsharedStep ==
    \A r \in reqs :
        AtUnsharedExpense(r) /\ next_expense'[r] = next_expense[r] + 1 =>
            LET e == expenses[r][next_expense[r] + 1]
            IN  balances'[r] = [balances[r] EXCEPT ![e.payer] = @ + e.amount]

\* C9, the scenario: when the only expense is one of 50.00 that lists no
\* participant, the payer's balance is +50, every other balance is 0, there is no
\* debtor and no transaction is emitted.
C9_UnsharedOnly ==
    \A r \in reqs :
        /\ Returned(r)
        /\ Len(expenses[r]) = 1
        /\ expenses[r][1].participants = {}
        /\ expenses[r][1].amount = Cents(5000)
        => /\ balances[r][expenses[r][1].payer] = Cents(5000)
           /\ \A p \in Range(players[r]) \ {expenses[r][1].payer} : balances[r][p] = 0
           /\ debtors[r] = <<>>
           /\ transactions[r] = <<>>

\* C9: an expense with an empty participant set adds its amount to the payer's
\* balance and changes no other player's balance; when such an expense of 50.00
\* is the only one, the payer's balance is +50, there is no debtor and no
\* transaction is emitted.
C9_UnsharedExpense == [][C9_UnsharedStep]_vars /\ []C9_UnsharedOnly

\* the request has returned on the single expense 50.00 paid by player 1 for nobody
C9_Witness ==
    \E r \in reqs :
        /\ Returned(r)
        /\ Len(players[r]) >= 2
        /\ expenses[r] = <<[amount |-> Cents(5000), payer |-> 1, participants |-> {}]>>
        /\ balances[r][1] = Cents(5000)

\* ------------------------------------------------------------- C10
\* C10: no request reaches an error state; with an empty roster the request
\* returns empty balances and no transactions; with no expense it returns balance
\* 0 for every player and no transactions; an expense that lists no participant
\* is processed without a division by zero.
C10_NoError ==
    \A r \in reqs :
        /\ pc[r] # "error"
        /\ Returned(r) /\ players[r] = <<>> =>
              DOMAIN balances[r] = {} /\ transactions[r] = <<>>
        /\ Returned(r) /\ expenses[r] = <<>> =>
              /\ DOMAIN balances[r] = Range(players[r])
              /\ \A p \in Range(players[r]) : balances[r][p] = 0
              /\ transactions[r] = <<>>

\* the request has returned although an expense lists no participant
C10_Witness ==
    \E r \in reqs :
        /\ Returned(r)
        /\ Len(players[r]) >= 2
        /\ \E n \in 1..Len(expenses[r]) : expenses[r][n].participants = {}

\* ------------------------------------------------------------- C11
\* request r has read its inputs (lines 569-570)
HasInputs(r) == pc[r] # "start"

\* C11, the step: no step of a request that has read its inputs changes its
\* player list, its expense list (amounts, payers, participant sets) or the
\* tables they were read from.
C11_InputsKept ==
    \A r \in reqs :
        HasInputs(r) =>
            /\ players'[r] = players[r]
            /\ expenses'[r] = expenses[r]
            /\ dbPlayers' = dbPlayers
            /\ dbExpenses' = dbExpenses

\* C11: a settlement computation leaves its inputs unchanged: from the moment
\* they are read to the return, the player list, the expense list and every
\* expense's amount, payer and participant set stay what they were; what it
\* returns was computed from exactly those inputs.
C11_InputsUnchanged ==
    /\ [][C11_InputsKept]_vars
    /\ [](\A r \in reqs : HasInputs(r) => players[r] = dbPlayers /\ expenses[r] = dbExpenses)

\* a request has returned transactions and its shared expenses are as they were read
C11_Witness ==
    \E r \in reqs :
        /\ Returned(r)
        /\ Len(transactions[r]) >= 2
        /\ Len(expenses[r]) = 2
        /\ expenses[r] = dbExpenses
        /\ AllShared(expenses[r])

\* ------------------------------------------------------------- C12
\* the transactions of request r sent by player p
SentBy(r, p) == {n \in 1..Len(transactions[r]) : transactions[r][n].from = p}

\* C12: when the only expense, of amount X, is paid by one of its n >= 2
\* participants, the payer's balance is +X*(n-1)/n and every other participant's
\* is -X/n; when X/n > 0.01 the request returns exactly n-1 transactions, one from
\* each other participant to the payer, for X/n (rounded to the cent, as every
\* emitted amount is).  For 90.00 paid by A for A, B, C: A=+60, B=-30, C=-30,
\* B -> A 30.00 and C -> A 30.00.
C12_SingleSharedExpense ==
    \A r \in reqs :
        /\ Returned(r)
        /\ Len(expenses[r]) = 1
        /\ expenses[r][1].payer \in expenses[r][1].participants
        /\ Cardinality(expenses[r][1].participants) >= 2
        => LET e == expenses[r][1]
               n == Cardinality(e.participants)
           IN  /\ n * balances[r][e.payer] = e.amount * (n - 1)
               /\ \A p \in e.participants \ {e.payer} : n * balances[r][p] = -e.amount
               /\ \A p \in Range(players[r]) \ e.participants : balances[r][p] = 0
               /\ e.amount > n * Eps =>
                     /\ Len(transactions[r]) = n - 1
                     /\ \A p \in e.participants \ {e.payer} :
                           /\ Cardinality(SentBy(r, p)) = 1
                           /\ \A k \in SentBy(r, p) :
                                 /\ transactions[r][k].to = e.payer
                                 /\ 2 * Abs(n * transactions[r][k].amount - e.amount) <= n * Eps
                                 /\ transactions[r][k].amount % Eps = 0
               /\ e = [amount |-> Cents(9000), payer |-> 1, participants |-> {1, 2, 3}] =>
                     /\ balances[r][1] = Cents(6000)
                     /\ balances[r][2] = Cents(-3000)
                     /\ balances[r][3] = Cents(-3000)
                     /\ transactions[r] = << [from |-> 2, to |-> 1, amount |-> Cents(3000)],
                                             [from |-> 3, to |-> 1, amount |-> Cents(3000)] >>

\* the request has returned on 90.00 paid by player 1 for players 1, 2 and 3
C12_Witness ==
    \E r \in reqs :
        /\ Returned(r)
        /\ expenses[r] = <<[amount |-> Cents(9000), payer |-> 1, participants |-> {1, 2, 3}]>>
        /\ Len(transactions[r]) = 2

\* ------------------------------------------------------------- C13
AllBalancesZero(r) == \A p \in DOMAIN balances[r] : balances[r][p] = 0

\* the only expense is shared by its payer alone
Scenario2(r) ==
    /\ Len(expenses[r]) = 1
    /\ expenses[r][1].participants = {expenses[r][1].payer}

\* two expenses of the same amount, one paid by each of two players, both shared
\* by exactly those two
Scenario4(r) ==
    /\ Len(expenses[r]) = 2
    /\ expenses[r][1].amount = expenses[r][2].amount
    /\ expenses[r][1].payer # expenses[r][2].payer
    /\ expenses[r][1].participants = {expenses[r][1].payer, expenses[r][2].payer}
    /\ expenses[r][2].participants = expenses[r][1].participants

\* C13: whenever every player's balance is zero the returned transaction list is
\* empty; an expense whose only participant is its payer, and two equal expenses
\* paid by A and by B and both split over A and B, leave every balance at zero
\* and so return no transaction.
C13_NothingToSettle ==
    \A r \in reqs :
        /\ BalancesComputed(r) /\ (Scenario2(r) \/ Scenario4(r)) => AllBalancesZero(r)
        /\ pc[r] \in {"sweep", "done"} /\ AllBalancesZero(r) =>
              /\ transactions[r] = <<>>
              /\ debtors[r] = <<>>
              /\ creditors[r] = <<>>

\* the request has returned on 30.00 paid by 1 and 30.00 paid by 2, both split over 1, 2
C13_Witness ==
    \E r \in reqs :
        /\ Returned(r)
        /\ Scenario4(r)
        /\ expenses[r][1].amount = Cents(3000)
        /\ Len(players[r]) >= 3
        /\ transactions[r] = <<>>

\* ------------------------------------------------------------- C14
\* what expense e adds to the balance of player p
Effect(e, p) ==
    (IF e.payer = p THEN e.amount ELSE 0)
    - (IF e.participants # {} /\ p \in e.participants
       THEN e.amount \div Cardinality(e.participants) ELSE 0)

RECURSIVE ExpectedBalance(_, _)
\* the amounts p paid, less p's share of every expense p takes part in
ExpectedBalance(es, p) ==
    IF es = <<>> THEN 0 ELSE Effect(Head(es), p) + ExpectedBalance(Tail(es), p)

\* C14: for every player p the computed balance is the sum of the amounts of the
\* expenses p paid minus, over the expenses with a non-empty participant set that
\* contains p, amount / number of participants; the payer is credited in full
\* whether or not it takes part, and a negative amount goes by the same rule.
C14_BalanceFormula ==
    \A r \in reqs :
        pc[r] \in {"expenses", "sort", "sweep", "done"} =>
            \A p \in Range(players[r]) :
                balances[r][p] = ExpectedBalance(Processed(r), p)

\* balances computed from a negative expense whose payer takes no part and a
\* positive one whose payer does
C14_Witness ==
    \E r \in reqs :
        /\ BalancesComputed(r)
        /\ Len(expenses[r]) = 2
        /\ expenses[r][1].amount < 0
        /\ expenses[r][1].participants # {}
        /\ expenses[r][1].payer \notin expenses[r][1].participants
        /\ expenses[r][2].amount > 0
        /\ expenses[r][2].payer \in expenses[r][2].participants
        /\ Cardinality(expenses[r][2].participants) = 3

\* ------------------------------------------------------------- C15
\* where player p stands in the roster of request r
RosterPos(r, p) == CHOOSE n \in 1..Len(players[r]) : players[r][n] = p

\* where player p stands in a debtor or creditor list
ListPos(list, p) == CHOOSE n \in 1..Len(list) : list[n].player = p

\* the amount player p entered its list with
InitialAmount(r, p) == Abs(balances[r][p])

\* the list is in descending order of initial amount, equals in roster order
InVisitOrder(r, list) ==
    \A m, n \in 1..Len(list) :
        m < n =>
            \/ InitialAmount(r, list[m].player) > InitialAmount(r, list[n].player)
            \/ /\ InitialAmount(r, list[m].player) = InitialAmount(r, list[n].player)
               /\ RosterPos(r, list[m].player) < RosterPos(r, list[n].player)

\* C15: debtors and creditors are each visited in descending order of initial
\* amount, ties in roster order; in the emitted list the `from` players follow
\* the debtor order and never go back to an earlier debtor, and the `to` players
\* follow the creditor order and never go back to an earlier creditor.
C15_EmissionOrder ==
    \A r \in reqs :
        pc[r] \in {"sweep", "done"} =>
            /\ InVisitOrder(r, debtors[r])
            /\ InVisitOrder(r, creditors[r])
            /\ \A k, l \in 1..Len(transactions[r]) :
                  k < l =>
                      /\ ListPos(debtors[r], transactions[r][k].from)
                            <= ListPos(debtors[r], transactions[r][l].from)
                      /\ ListPos(creditors[r], transactions[r][k].to)
                            <= ListPos(creditors[r], transactions[r][l].to)

\* three transactions returned, between two debtors of equal debt, the later in
\* the roster listed second, and two creditors
C15_Witness ==
    \E r \in reqs :
        /\ Returned(r)
        /\ Len(transactions[r]) = 3
        /\ Len(debtors[r]) = 2
        /\ Len(creditors[r]) = 2
        /\ InitialAmount(r, debtors[r][1].player) = InitialAmount(r, debtors[r][2].player)
        /\ transactions[r][1].from # transactions[r][3].from
        /\ transactions[r][1].to # transactions[r][3].to

\* ------------------------------------------------------------- C16
\* request r is at the top of an iteration of the sweep
AtIteration(r) == pc[r] = "sweep" /\ InLoop(r)

\* the debtor and the creditor under the cursors, and min of their amounts
CurrentDebtor(r) == debtors[r][i[r] + 1]

CurrentCreditor(r) == creditors[r][j[r] + 1]

CurrentSettle(r) == Min(CurrentDebtor(r).amount, CurrentCreditor(r).amount)

\* the step is an iteration of r's sweep that changes something
SweepMoves(r) ==
    /\ AtIteration(r)
    /\ <<debtors[r], creditors[r], transactions[r], i[r], j[r]>>
          # <<debtors'[r], creditors'[r], transactions'[r], i'[r], j'[r]>>

\* amount is x rounded to a whole cent
IsRounded(amount, x) == amount % Eps = 0 /\ 2 * Abs(amount - x) <= Eps

\* C16, the step: an iteration appends one transaction when settle > 0.01, from
\* the current debtor to the current creditor for settle rounded to the cent, and
\* appends nothing otherwise.
C16_EmitStep ==
    \A r \in reqs :
        SweepMoves(r) =>
            IF CurrentSettle(r) > Eps
            THEN /\ Len(transactions'[r]) = Len(transactions[r]) + 1
                 /\ SubSeq(transactions'[r], 1, Len(transactions[r])) = transactions[r]
                 /\ LET t == transactions'[r][Len(transactions'[r])]
                    IN  /\ t.from = CurrentDebtor(r).player
                        /\ t.to = CurrentCreditor(r).player
                        /\ IsRounded(t.amount, CurrentSettle(r))
            ELSE transactions'[r] = transactions[r]

\* C16, the amounts: every emitted amount is positive and at least 0.01.
C16_AmountsAtLeastEps ==
    \A r \in reqs :
        \A n \in 1..Len(transactions[r]) : transactions[r][n].amount >= Eps

\* C16: in an iteration of the sweep a transaction is emitted if and only if
\* settle = min(d.remaining, c.remaining) > 0.01, its amount is settle rounded to
\* 2 decimals, and so every emitted amount is positive and at least 0.01.
C16_EmitIffAboveEps == [][C16_EmitStep]_vars /\ []C16_AmountsAtLeastEps

\* the request has returned a transaction whose amount was rounded, after an
\* iteration over a debtor of less than a cent that emitted nothing
C16_Witness ==
    \E r \in reqs :
        /\ Returned(r)
        /\ Len(transactions[r]) >= 1
        /\ i[r] = Len(debtors[r])
        /\ \E n \in 1..Len(debtors[r]) :
              /\ InitialAmount(r, debtors[r][n].player) < Eps
              /\ debtors[r][n].amount > 0
        /\ \E n \in 1..Len(debtors[r]) :
              InitialAmount(r, debtors[r][n].player) % Eps # 0
                 /\ debtors[r][n].amount = 0

\* ------------------------------------------------------------- C17
\* C17: every iteration of the sweep subtracts settle from the remaining amount
\* of the current debtor and of the current creditor, whether or not it emitted a
\* transaction, and then advances at least one cursor: the debtor cursor exactly
\* when the debtor's remainder is below 0.01, the creditor cursor exactly when
\* the creditor's is.
C17_IterationStep ==
    \A r \in reqs :
        AtIteration(r) =>
            LET dleft == CurrentDebtor(r).amount - CurrentSettle(r)
                cleft == CurrentCreditor(r).amount - CurrentSettle(r)
            IN  /\ debtors'[r][i[r] + 1].amount = dleft
                /\ creditors'[r][j[r] + 1].amount = cleft
                /\ i'[r] = (IF dleft < Eps THEN i[r] + 1 ELSE i[r])
                /\ j'[r] = (IF cleft < Eps THEN j[r] + 1 ELSE j[r])
                /\ i'[r] > i[r] \/ j'[r] > j[r]

\* C17, over every step of a run: each iteration subtracts settle from both
\* remainders, emitted or not, and advances at least one cursor.
C17_SubtractsAndAdvances == [][C17_IterationStep]_vars

\* ------------------------------------------------------------- C18
ReceivedBy(r, p) == {n \in 1..Len(transactions[r]) : transactions[r][n].to = p}

\* C18: throughout the sweep every debtor's and every creditor's remaining amount
\* stays between 0 and its initial amount; what a debtor has sent, and what a
\* creditor has received, is the part of its initial amount that is gone (up to
\* half a cent of rounding per transaction), so never more than its initial
\* amount before rounding; only players with a balance below zero appear as
\* `from` and only players with a balance above zero as `to`.
C18_NoOverSettlement ==
    \A r \in reqs :
        Partitioned(r) =>
            /\ \A n \in 1..Len(debtors[r]) :
                  LET d == debtors[r][n]
                  IN  /\ 0 <= d.amount
                      /\ d.amount <= InitialAmount(r, d.player)
                      /\ 2 * Abs(Sent(r, d.player) - (InitialAmount(r, d.player) - d.amount))
                            <= Eps * Cardinality(SentBy(r, d.player))
            /\ \A n \in 1..Len(creditors[r]) :
                  LET c == creditors[r][n]
                  IN  /\ 0 <= c.amount
                      /\ c.amount <= InitialAmount(r, c.player)
                      /\ 2 * Abs(Received(r, c.player) - (InitialAmount(r, c.player) - c.amount))
                            <= Eps * Cardinality(ReceivedBy(r, c.player))
            /\ \A n \in 1..Len(transactions[r]) :
                  /\ balances[r][transactions[r][n].from] < 0
                  /\ balances[r][transactions[r][n].to] > 0

\* in mid sweep, a debtor has paid part of its debt and a creditor is paid in full
C18_Witness ==
    \E r \in reqs :
        /\ AtIteration(r)
        /\ Len(transactions[r]) >= 1
        /\ CurrentDebtor(r).amount > 0
        /\ CurrentDebtor(r).amount < InitialAmount(r, CurrentDebtor(r).player)
        /\ \E n \in 1..Len(creditors[r]) : creditors[r][n].amount = 0

\* ------------------------------------------------------------- C19
\* the (debtor, creditor) pairs of the emitted transactions
Pairs(r) == {<<transactions[r][n].from, transactions[r][n].to>> : n \in 1..Len(transactions[r])}

\* C19: whenever the sweep returns it has emitted at most (number of debtors +
\* number of creditors - 1) transactions when both lists are non-empty and none
\* otherwise, and no (debtor, creditor) pair occurs in more than one transaction.
C19_TransactionCount ==
    \A r \in reqs :
        Returned(r) =>
            /\ IF debtors[r] # <<>> /\ creditors[r] # <<>>
               THEN Len(transactions[r]) <= Len(debtors[r]) + Len(creditors[r]) - 1
               ELSE transactions[r] = <<>>
            /\ Cardinality(Pairs(r)) = Len(transactions[r])

\* the sweep has returned the most transactions two debtors and two creditors allow
C19_Witness ==
    \E r \in reqs :
        /\ Returned(r)
        /\ Len(debtors[r]) = 2
        /\ Len(creditors[r]) = 2
        /\ Len(transactions[r]) = 3

=============================================================================
